---- MODULE Spec2Model ----
(***************************************************************************)
(* Model of the process supervisor of ionmc (class Server): the child      *)
(* process handle, the output handler that reassembles chunks into         *)
(* records, the event classifier (checkEvents), the online-player set and  *)
(* the single-shot getPlayers() listener with its 2 second timer.          *)
(*                                                                         *)
(* Text is modelled as a sequence of tokens.  A token is a literal piece   *)
(* of console text (a log header, a player name, " joined the game", a     *)
(* line terminator, ...).  Chunks of child output are cut at token         *)
(* boundaries; the regular expressions of the source are evaluated on the  *)
(* token sequence (the dot never matches a line terminator, trim() strips  *)
(* white-space tokens at both ends).                                       *)
(***************************************************************************)
EXTENDS Integers, Sequences, FiniteSets, TLC

\* ------------------------------------------------------------------ bounds
\* what one behaviour holds at most: calls of start(), calls of getPlayers()
\* and lines printed by the children, all counted together
MaxOps == 4

Gens == 1..MaxOps
Calls == 1..MaxOps

\* ------------------------------------------------------------------ tokens
NL == "\n"
CR == "\r"
SP == " "
COMMA == ","
HDR == "[10:00:01] [Server thread/INFO]: "
JOINED == " joined the game"
LEFT == " left the game"
DONE == "Done (12.345s)! For help, type \"help\""
LISTHDR == "There are 1 of a max of 20 players online:"
EULATXT == "eula.txt"
Undefined == "undefined"

IsNewline(t) == t \in {NL, CR}
IsSpace(t) == t \in {NL, CR, SP}
HDRMAIN == "[10:00:01] [Main/minecraft]: "
HDRMAININFO == "[10:00:01] [Main/INFO]: "
\* the extended form, with a bracketed context after [thread/level]
HDREXT == "[10:00:01] [main/INFO] [minecraft/Main]: "
IsHeader(t) == t \in {HDR, HDRMAIN, HDRMAININFO, HDREXT}
HdrTime(h) == "10:00:01"
\* groups 2 and 3 of /\[(\d+:\d+:\d+)\] \[(.+?)\/(\w+)\]: (.+)/: on the extended
\* form "]: " follows the second bracket only, so (.+?) runs up to its "/"
HdrThread(h) == IF h \in {HDRMAIN, HDRMAININFO} THEN "Main"
                ELSE IF h = HDREXT THEN "main/INFO] [minecraft"
                ELSE "Server thread"
HdrType(h) == IF h = HDRMAIN THEN "minecraft"
              ELSE IF h = HDREXT THEN "Main"
              ELSE "INFO"

\* the lines a child prints, each ended by "\n" (a "\r" ends a chunk for the
\* handler in the same way)
JoinLine == <<HDR, "Steve", JOINED, NL>>
LeaveLine == <<HDR, "Steve", LEFT, NL>>
ReadyLine == <<HDR, DONE, NL>>
ListLine == <<HDR, LISTHDR, SP, "Alex", NL>>
ChatLine == <<HDR, "hello", NL>>
Lines == {JoinLine, LeaveLine, ReadyLine, ListLine, ChatLine}

RECURSIVE StreamsUpTo(_)
StreamsUpTo(n) ==
  IF n = 0 THEN {<<>>}
  ELSE LET p == StreamsUpTo(n - 1) IN p \cup {s \o l : s \in p, l \in Lines}
\* the output streams of at most n lines
Streams == [n \in 0..MaxOps |-> StreamsUpTo(n)]

\* ----------------------------------------------------------------- helpers
Min(S) == CHOOSE x \in S : \A y \in S : x <= y
Max(S) == CHOOSE x \in S : \A y \in S : x >= y
Range(s) == {s[i] : i \in 1..Len(s)}
IsPrefix(p, s) == Len(p) <= Len(s) /\ SubSeq(s, 1, Len(p)) = p
Last(s) == s[Len(s)]
\* String.prototype.endsWith("\n") || endsWith("\r")
endsWithNewline(data) == Len(data) > 0 /\ IsNewline(Last(data))
\* index of the last token of the line that holds position i
LineEnd(s, i) ==
  LET nls == {k \in i..Len(s) : IsNewline(s[k])}
  IN IF nls = {} THEN Len(s) ELSE Min(nls) - 1
\* index of the first token of the line that holds position i
LineStart(s, i) ==
  LET nls == {k \in 1..(i - 1) : IsNewline(s[k])}
  IN IF nls = {} THEN 1 ELSE Max(nls) + 1
\* String.prototype.trim
trim(s) ==
  LET idx == {k \in 1..Len(s) : ~IsSpace(s[k])}
  IN IF idx = {} THEN <<>> ELSE SubSeq(s, Min(idx), Max(idx))

\* ------------------------------------------------------------------- state
VARIABLES
  ptyProcess,   \* Server.ptyProcess: 0 = undefined, g = handle of child g
  child,        \* per child: "unborn", "running" or "exited" (exit observed)
  partial,      \* per child: the `partial` closure variable of its onData handler
  delivered,    \* per child: all output handed to its onData handler so far
  stdin,        \* per child: what was written to its handle
  ready,        \* Server.ready
  players,      \* Server.players
  stdout,       \* Server.stdout
  listeners,    \* listeners of the "data" event added by getPlayers(), in order
  calls,        \* per getPlayers() call: its promise and its timer
  emitted,      \* what the latest step delivered to subscribers and callers, in order
  stops,        \* per stop() call: its promise and the handle "stop" was written to
  exitOnce,     \* the once("exit") listeners added by stop(), in order
  restarts,     \* per restart() call: where it stands and the stop() it awaits
  killed,       \* per child: a kill signal was sent to it
  called,       \* how often kill(), write() and writeLine() were called
  reported,     \* the exit code the pty reported in the latest step, -1 when the
                \* step observed no exit
  rcon,         \* the RCON object: requestId, responseBuffer and its socket
  connectP,     \* the promise of RCON.connect and the password it was given
  requests,     \* per sendPacket() call, in order: type, id, its promise, and
                \* whether connect() had resolved when it was made
  remote,       \* the listener's side: the bytes on their way back, what it answered
  disconnectP,  \* the promise of RCON.disconnect, and the sendPacket() calls
                \* that were pending when it was called
  serverRcon,   \* Server.rcon, and the promise of every connectRcon() call
  codec         \* a packet taken through createPacket and handleResponse

serverVars == <<ptyProcess, child, partial, delivered, stdin, ready, players, stdout,
                listeners, calls, emitted, stops, exitOnce, restarts, killed, called,
                reported>>
rconVars == <<rcon, connectP, requests, remote, disconnectP, serverRcon, codec>>
vars == <<serverVars, rconVars>>

NoCall == [promise |-> "none", value |-> <<>>, timer |-> "none", listenedAtWrite |-> FALSE]
NoStop == [promise |-> "none", gen |-> 0]
NoRestart == [pc |-> "none", stop |-> 0, born |-> 0]

\* the mutable fields of the Server object that the handlers thread through;
\* every handler run starts with nothing delivered yet
Cur == [ptyProcess |-> ptyProcess, stdin |-> stdin, ready |-> ready,
        players |-> players, stdout |-> stdout, listeners |-> listeners,
        calls |-> calls, emitted |-> <<>>,
        stops |-> stops, exitOnce |-> exitOnce, restarts |-> restarts]

Commit(s) ==
  /\ ptyProcess' = s.ptyProcess
  /\ stdin' = s.stdin
  /\ ready' = s.ready
  /\ players' = s.players
  /\ stdout' = s.stdout
  /\ listeners' = s.listeners
  /\ calls' = s.calls
  /\ emitted' = s.emitted
  /\ stops' = s.stops
  /\ exitOnce' = s.exitOnce
  /\ restarts' = s.restarts

\* EventEmitter.emit towards the subscribers outside the class: the entry
\* records the event, its argument, the child whose handler emitted it, and
\* what isReady() and players are while the subscriber runs
emit(s, ev, arg, g) ==
  [s EXCEPT !.emitted = Append(@, [ev |-> ev, arg |-> arg, gen |-> g, call |-> 0,
                                   ready |-> s.ready, players |-> s.players])]

ServerInit ==
  /\ ptyProcess = 0
  /\ child = [g \in Gens |-> "unborn"]
  /\ partial = [g \in Gens |-> <<>>]
  /\ delivered = [g \in Gens |-> <<>>]
  /\ stdin = [g \in Gens |-> <<>>]
  /\ ready = FALSE
  /\ players = {}
  /\ stdout = <<>>
  /\ listeners = <<>>
  /\ calls = [k \in Calls |-> NoCall]
  /\ emitted = <<>>
  /\ stops = [k \in Calls |-> NoStop]
  /\ exitOnce = <<>>
  /\ restarts = [k \in Calls |-> NoRestart]
  /\ killed = [g \in Gens |-> FALSE]
  /\ called = [kill |-> 0, write |-> 0, writeLine |-> 0]
  /\ reported = -1

\* the RCON object as its constructor sets it up, and a Server without one
RconInit ==
  /\ rcon = [requestId |-> 0, responseBuffer |-> <<>>, socket |-> "idle",
             written |-> <<>>, once |-> <<>>]
  /\ connectP = [promise |-> "none", value |-> "", password |-> <<>>]
  /\ requests = <<>>
  /\ remote = [inbound |-> <<>>, answered |-> {}]
  /\ disconnectP = [promise |-> "none", pendingAt |-> {}]
  /\ serverRcon = [rcon |-> Undefined, calls |-> <<>>]

NoCodec == [id |-> 0, type |-> 0, body |-> <<>>, pc |-> "none", packet |-> <<>>,
            decoded |-> [buffer |-> <<>>, outcome |-> "pending",
                         value |-> [id |-> 0, body |-> <<>>, error |-> ""]]]

Init == ServerInit /\ RconInit /\ codec = NoCodec

\* --------------------------------------------------------- Server.parseData
parseData(data) ==
  LET hs == {i \in 1..(Len(data) - 1) : IsHeader(data[i]) /\ ~IsNewline(data[i + 1])}
  IN IF hs # {}
     THEN LET i == Min(hs)
          IN [time |-> HdrTime(data[i]), thread |-> HdrThread(data[i]),
              type |-> HdrType(data[i]),
              message |-> trim(SubSeq(data, i + 1, LineEnd(data, i + 1)))]
     ELSE [time |-> Undefined, thread |-> Undefined, type |-> Undefined,
           message |-> trim(data)]

\* ForgeServer.parseData (an instance method): the pattern
\* /\[(\d+:\d+:\d+)\] \[(.+?)\/(\w+)\](?: \[.+?\/\w*\])?: (.+)/ skips the
\* context of the extended form, thread and level come from the first bracket
ForgeServer_parseData(data) ==
  LET hs == {i \in 1..(Len(data) - 1) : IsHeader(data[i]) /\ ~IsNewline(data[i + 1])}
  IN IF hs # {}
     THEN LET i == Min(hs)
          IN [time |-> HdrTime(data[i]),
              thread |-> IF data[i] = HDREXT THEN "main" ELSE HdrThread(data[i]),
              type |-> IF data[i] = HDREXT THEN "INFO" ELSE HdrType(data[i]),
              message |-> trim(SubSeq(data, i + 1, LineEnd(data, i + 1)))]
     ELSE [time |-> Undefined, thread |-> Undefined, type |-> Undefined,
           message |-> trim(data)]

\* ------------------------------------------------------ Server.checkEvents
\* msg.match(/(.*?) joined the game/) and /(.*?) left the game/: the index of
\* the first marker token; a marker that opens the message lost its leading
\* blank to trim() and does not match
MarkerIdx(msg, marker) == {j \in 2..Len(msg) : msg[j] = marker}
\* result[1]: the text of the marker's line in front of the marker
Capture(msg, j) == SubSeq(msg, LineStart(msg, j), j - 1)

joinBranch(s, name, g) ==
  emit([s EXCEPT !.players = @ \cup {name}], "join", name, g)

\* seeded fault: the leave branch emits the event but keeps the player
leaveBranch_keeps(s, name, g) ==
  emit(s, "leave", name, g)

leaveBranch(s, name, g) ==
  emit([s EXCEPT !.players = @ \ {name}], "leave", name, g)

readyBranch(s, g) ==
  [emit(s, "ready", Undefined, g) EXCEPT !.ready = TRUE]

eulaBranch(s, g) ==
  emit(s, "eula", "EULA not accepted.", g)

\* seeded fault: the ready marker is tested before the join and leave markers
checkEvents_readyFirst(s, data, g) ==
  LET msg == data.message
      js == MarkerIdx(msg, JOINED)
      ls == MarkerIdx(msg, LEFT)
  IN IF DONE \in Range(msg) THEN readyBranch(s, g)
     ELSE IF js # {} THEN joinBranch(s, Capture(msg, Min(js)), g)
     ELSE IF ls # {} THEN leaveBranch(s, Capture(msg, Min(ls)), g)
     ELSE IF data.type = "minecraft" /\ data.thread = "Main" /\ EULATXT \in Range(msg)
          THEN eulaBranch(s, g)
     ELSE s

checkEvents(s, data, g) ==
  LET msg == data.message
      js == MarkerIdx(msg, JOINED)
      ls == MarkerIdx(msg, LEFT)
  IN IF js # {} THEN joinBranch(s, Capture(msg, Min(js)), g)
     ELSE IF ls # {} THEN leaveBranch(s, Capture(msg, Min(ls)), g)
     ELSE IF DONE \in Range(msg) THEN readyBranch(s, g)
     ELSE IF data.type = "minecraft" /\ data.thread = "Main" /\ EULATXT \in Range(msg)
          THEN eulaBranch(s, g)
     ELSE s

\* ------------------------------------------------------- Server.getPlayers
\* a promise settles once: resolve/reject of a settled promise does nothing
settle(s, k, outcome, value) ==
  IF s.calls[k].promise = "pending"
  THEN [s EXCEPT !.calls[k].promise = outcome, !.calls[k].value = value,
                 !.emitted = Append(@, [ev |-> outcome, arg |-> value, gen |-> 0,
                                        ready |-> s.ready, players |-> s.players,
                                        call |-> k])]
  ELSE s

\* EventEmitter.on / off for the "data" listener of call k
on(s, k) == [s EXCEPT !.listeners = Append(@, k)]
NotCall(k) == [x \in Calls |-> x # k]
off(s, k) == [s EXCEPT !.listeners = SelectSeq(@, LAMBDA x : NotCall(k)[x])]

\* data.message.match(/There are \d+ of a max of \d+ players online:\s*(.*)/)
ListIdx(msg) == {p \in 1..Len(msg) : msg[p] = LISTHDR}
\* result[1]: \s* eats white space (line terminators too), (.*) runs to the line end
ListCapture(msg, p) ==
  LET rest == {q \in (p + 1)..Len(msg) : ~IsSpace(msg[q])}
  IN IF rest = {} THEN <<>>
     ELSE SubSeq(msg, Min(rest), LineEnd(msg, Min(rest)))

RECURSIVE split(_)
\* String.prototype.split(",")
split(str) ==
  LET cs == {i \in 1..Len(str) : str[i] = COMMA}
  IN IF cs = {} THEN <<str>>
     ELSE <<SubSeq(str, 1, Min(cs) - 1)>> \o split(SubSeq(str, Min(cs) + 1, Len(str)))

\* seeded fault: the empty entries of the list are kept
listNames_keepsEmpty(str) ==
  LET parts == split(str)
  IN [i \in 1..Len(parts) |-> trim(parts[i])]

\* result[1].split(",").map(a => a.trim()).filter(Boolean)
listNames(str) ==
  LET parts == split(str)
      trimmed == [i \in 1..Len(parts) |-> trim(parts[i])]
  IN SelectSeq(trimmed, LAMBDA a : a # <<>>)

\* seeded fault: the handler adds the listed names to players instead of replacing
dataHandler_adds(s, k, data) ==
  LET ps == ListIdx(data.message)
  IN IF ps # {}
     THEN LET names == listNames(ListCapture(data.message, Min(ps)))
              s1 == [s EXCEPT !.players = @ \cup Range(names)]
              s2 == off(s1, k)
          IN settle(s2, k, "resolved", names)
     ELSE s

\* seeded fault: the handler resolves without removing itself
dataHandler_noOff(s, k, data) ==
  LET ps == ListIdx(data.message)
  IN IF ps # {}
     THEN LET names == listNames(ListCapture(data.message, Min(ps)))
              s1 == [s EXCEPT !.players = Range(names)]
          IN settle(s1, k, "resolved", names)
     ELSE s

\* the dataHandler closure of call k
dataHandler(s, k, data) ==
  LET ps == ListIdx(data.message)
  IN IF ps # {}
     THEN LET names == listNames(ListCapture(data.message, Min(ps)))
              s1 == [s EXCEPT !.players = Range(names)]
              s2 == off(s1, k)
          IN settle(s2, k, "resolved", names)
     ELSE s

\* seeded fault: the emit stops after the first listener
runListeners_first(s, ls, data) ==
  IF ls = <<>> THEN s ELSE dataHandler(s, Head(ls), data)

\* emit calls every listener registered when it began, a listener that
\* removes itself does not keep the ones after it from being called
RECURSIVE runListeners(_, _, _)
runListeners(s, ls, data) ==
  IF ls = <<>> THEN s
  ELSE runListeners(dataHandler(s, Head(ls), data), Tail(ls), data)

\* this.emit("data", parsed): the subscribers outside the class, then the
\* getPlayers() listeners registered at the time of the emit, in order
emitData(s, data, g) ==
  runListeners(emit(s, "data", data, g), s.listeners, data)

\* Server.write / Server.writeLine: this.ptyProcess?.write(...)
write(s, data) ==
  IF s.ptyProcess # 0 THEN [s EXCEPT !.stdin[s.ptyProcess] = Append(@, data)] ELSE s
writeLine(s, data) == write(s, data \o <<NL>>)

setTimeout(s, k) == [s EXCEPT !.calls[k].timer = "armed"]

getPlayers(s, k) ==
  LET s1 == [s EXCEPT !.calls[k].promise = "pending"]
      s2 == on(s1, k)
      s3 == [writeLine(s2, <<"list">>) EXCEPT
               !.calls[k].listenedAtWrite = (k \in Range(s2.listeners))]
  IN setTimeout(s3, k)

\* seeded fault: the timer rejects without removing the listener
timeout_noOff(s, k) ==
  [settle(s, k, "rejected", "Timeout") EXCEPT !.calls[k].timer = "fired"]

\* the callback handed to setTimeout
timeout(s, k) ==
  LET s1 == off(s, k)
      s2 == settle(s1, k, "rejected", "Timeout")
  IN [s2 EXCEPT !.calls[k].timer = "fired"]

\* ----------------------------------------------------------------- actions
ExitCodes == {0, 1}

\* the number of lines a stream holds, an unterminated last one included
LinesBegun(st) ==
  Cardinality({i \in 1..Len(st) : IsNewline(st[i])})
    + (IF st # <<>> /\ ~endsWithNewline(st) THEN 1 ELSE 0)

RECURSIVE Sum(_, _)
Sum(f, n) == IF n = 0 THEN 0 ELSE f[n] + Sum(f, n - 1)

\* the operations called and lines begun so far
Used ==
  Cardinality({g \in Gens : child[g] # "unborn"})
    + Cardinality({k \in Calls : calls[k].promise # "none"})
    + Sum([g \in Gens |-> LinesBegun(delivered[g])], MaxOps)
    + Cardinality({k \in Calls : stops[k].promise # "none"})
    + Cardinality({k \in Calls : restarts[k].pc \in {"stopping", "waiting"}})
    + called.kill + called.write + called.writeLine
    + Len(serverRcon.calls)

\* the chunks child g can deliver next: any piece of the rest of its current
\* line followed by further lines, cut at any token
NextChunks(g) ==
  LET d == delivered[g]
      frag == SubSeq(d, LineStart(d, Len(d) + 1), Len(d))
      rests == IF frag = <<>> THEN {<<>>}
               ELSE {SubSeq(l, Len(frag) + 1, Len(l)) : l \in {x \in Lines : IsPrefix(frag, x)}}
      full == {r \o st : r \in rests, st \in Streams[MaxOps - Used]}
  IN UNION {{SubSeq(f, 1, n) : n \in 1..Len(f)} : f \in full}

\* seeded fault: the new child takes over the text held back for the child
\* before it
start_keepsPartial(g) ==
  /\ ptyProcess' = g
  /\ child' = [child EXCEPT ![g] = "running"]
  /\ partial' = [partial EXCEPT ![g] = IF ptyProcess # 0 THEN partial[ptyProcess] ELSE <<>>]

\* Server.start (ForgeServer.start changes the same state); attachPtyEvents
\* declares `let partial = ""` for the handlers of the child it is given
start(g) ==
  /\ ptyProcess' = g
  /\ child' = [child EXCEPT ![g] = "running"]
  /\ partial' = [partial EXCEPT ![g] = <<>>]

Start ==
  /\ Used < MaxOps
  /\ start(Min({x \in Gens : child[x] = "unborn"}))
  /\ emitted' = <<>>
  /\ UNCHANGED <<delivered, stdin, ready, players, stdout, listeners, calls,
                 stops, exitOnce, restarts, killed, called>>
  /\ reported' = -1
  /\ UNCHANGED rconVars

\* seeded fault: the chunk is put in front of the text held back before it
onData_swapped(s, part, data, g) ==
  IF endsWithNewline(data)
  THEN LET whole == data \o part
           parsed == parseData(whole)
           s1 == checkEvents(s, parsed, g)
           s2 == [s1 EXCEPT !.stdout = Append(@, parsed)]
       IN [partial |-> <<>>, server |-> emitData(s2, parsed, g)]
  ELSE [partial |-> part \o data, server |-> s]

\* the callback handed to ptyProcess.onData
onData(s, part, data, g) ==
  IF endsWithNewline(data)
  THEN LET whole == part \o data
           parsed == parseData(whole)
           s1 == checkEvents(s, parsed, g)
           s2 == [s1 EXCEPT !.stdout = Append(@, parsed)]
       IN [partial |-> <<>>, server |-> emitData(s2, parsed, g)]
  ELSE [partial |-> part \o data, server |-> s]

OnData(g) ==
  /\ child[g] = "running"
  /\ \E chunk \in NextChunks(g) :
       /\ delivered' = [delivered EXCEPT ![g] = @ \o chunk]
       /\ LET r == onData(Cur, partial[g], chunk, g)
          IN /\ partial' = [partial EXCEPT ![g] = r.partial]
             /\ Commit(r.server)
  /\ UNCHANGED <<child, killed, called>>
  /\ reported' = -1
  /\ UNCHANGED rconVars

\* the listener that stop() call k hands to once("exit"): resolve()
resolveStop(s, k) ==
  IF s.stops[k].promise = "pending"
  THEN [s EXCEPT !.stops[k].promise = "resolved",
                 !.emitted = Append(@, [ev |-> "stopped", arg |-> k, gen |-> 0, call |-> 0,
                                        ready |-> s.ready, players |-> s.players])]
  ELSE s

RECURSIVE runExitOnce(_, _)
runExitOnce(s, ls) ==
  IF ls = <<>> THEN s ELSE runExitOnce(resolveStop(s, Head(ls)), Tail(ls))

\* restart() after `await this.stop()`: it goes on to `await wait(1000)`
resumeRestarts(s) ==
  [s EXCEPT !.restarts =
     [r \in Calls |->
        IF @[r].pc = "stopping" /\ s.stops[@[r].stop].promise = "resolved"
        THEN [@[r] EXCEPT !.pc = "waiting"] ELSE @[r]]]

\* seeded fault: the exit is handled without emitting the exit event
onExit_silent(s, code, g) == [s EXCEPT !.ready = FALSE]

\* seeded fault: the exit event always carries the code 0
onExit_zero(s, code, g) ==
  LET s1 == emit([s EXCEPT !.ready = FALSE], "exit", 0, g)
      s2 == runExitOnce([s1 EXCEPT !.exitOnce = <<>>], s1.exitOnce)
  IN resumeRestarts(s2)

\* the callback handed to ptyProcess.onExit; emit("exit") runs the
\* subscribers and the once-listeners of stop(), which are removed as they run
onExit(s, code, g) ==
  LET s1 == emit([s EXCEPT !.ready = FALSE], "exit", code, g)
      s2 == runExitOnce([s1 EXCEPT !.exitOnce = <<>>], s1.exitOnce)
  IN resumeRestarts(s2)

OnExit(g, code) ==
  /\ child[g] = "running"
  /\ child' = [child EXCEPT ![g] = "exited"]
  /\ Commit(onExit(Cur, code, g))
  /\ UNCHANGED <<partial, delivered, killed, called>>
  /\ reported' = code
  /\ UNCHANGED rconVars

GetPlayers ==
  /\ Used < MaxOps
  /\ LET k == Min({x \in Calls : calls[x].promise = "none"})
     IN Commit(getPlayers(Cur, k))
  /\ UNCHANGED <<child, partial, delivered, killed, called>>
  /\ reported' = -1
  /\ UNCHANGED rconVars

Timeout(k) ==
  /\ calls[k].timer = "armed"
  /\ Commit(timeout(Cur, k))
  /\ UNCHANGED <<child, partial, delivered, killed, called>>
  /\ reported' = -1
  /\ UNCHANGED rconVars

\* --------------------------------------------- stop, kill, restart, write
\* g is the handle of a child that runs
Alive(g) == g # 0 /\ child[g] = "running"
FreeId(f) == Min({k \in Calls : f[k] = "none"})

\* Server.stop
stop(s, k) ==
  LET s1 == writeLine(s, <<"stop">>)
  IN [s1 EXCEPT !.stops[k] = [promise |-> "pending", gen |-> s.ptyProcess],
                !.exitOnce = Append(@, k)]

Stop ==
  /\ Used < MaxOps
  /\ Commit(stop(Cur, FreeId([k \in Calls |-> stops[k].promise])))
  /\ UNCHANGED <<child, partial, delivered, killed, called>>
  /\ reported' = -1
  /\ UNCHANGED rconVars

\* Server.kill: this.ptyProcess?.kill()
kill(sent, handle) ==
  IF handle # 0 THEN [sent EXCEPT ![handle] = TRUE] ELSE sent

Kill ==
  /\ Used < MaxOps
  /\ killed' = kill(killed, ptyProcess)
  /\ called' = [called EXCEPT !.kill = @ + 1]
  /\ emitted' = <<>>
  /\ UNCHANGED <<ptyProcess, child, partial, delivered, stdin, ready, players, stdout,
                 listeners, calls, stops, exitOnce, restarts>>
  /\ reported' = -1
  /\ UNCHANGED rconVars

\* Server.restart up to `await this.stop()`
restart(s, r, k) ==
  [stop(s, k) EXCEPT !.restarts[r] = [pc |-> "stopping", stop |-> k, born |-> 0]]

\* the call and the child it will spawn are both counted
Restart ==
  /\ Used + 1 < MaxOps
  /\ Commit(restart(Cur, FreeId([k \in Calls |-> restarts[k].pc]),
                    FreeId([k \in Calls |-> stops[k].promise])))
  /\ UNCHANGED <<child, partial, delivered, killed, called>>
  /\ reported' = -1
  /\ UNCHANGED rconVars

\* Server.restart after `await wait(1000)`: `return await this.start()`
RestartWake(r) ==
  /\ restarts[r].pc = "waiting"
  /\ LET g == Min({x \in Gens : child[x] = "unborn"})
     IN /\ start(g)
        /\ restarts' = [restarts EXCEPT ![r] = [@ EXCEPT !.pc = "done", !.born = g]]
  /\ emitted' = <<>>
  /\ UNCHANGED <<delivered, stdin, ready, players, stdout, listeners, calls,
                 stops, exitOnce, killed, called>>
  /\ reported' = -1
  /\ UNCHANGED rconVars

\* what the callers of write() and writeLine() pass
Texts == {<<"say hi">>}

Write ==
  /\ Used < MaxOps
  /\ \E text \in Texts : Commit(write(Cur, text))
  /\ called' = [called EXCEPT !.write = @ + 1]
  /\ UNCHANGED <<child, partial, delivered, killed>>
  /\ reported' = -1
  /\ UNCHANGED rconVars

WriteLine ==
  /\ Used < MaxOps
  /\ \E text \in Texts : Commit(writeLine(Cur, text))
  /\ called' = [called EXCEPT !.writeLine = @ + 1]
  /\ UNCHANGED <<child, partial, delivered, killed>>
  /\ reported' = -1
  /\ UNCHANGED rconVars

Next ==
  \/ Start
  \/ \E g \in Gens : OnData(g)
  \/ \E g \in Gens, code \in ExitCodes : OnExit(g, code)
  \/ GetPlayers
  \/ \E k \in Calls : Timeout(k)

Spec == Init /\ [][Next]_vars

\* the same Server with stop(), kill(), restart(), write() and writeLine()
\* called at any moment
LifeNext ==
  \/ Start
  \/ \E g \in Gens : OnData(g)
  \/ \E g \in Gens, code \in ExitCodes : OnExit(g, code)
  \/ Stop
  \/ Kill
  \/ Restart
  \/ \E r \in Calls : RestartWake(r)
  \/ Write
  \/ WriteLine

LifeSpec == Init /\ [][LifeNext]_vars

\* the calls that start and end children, the children printing nothing; a
\* child that was sent the kill signal exits, and its exit is observed
KillNext ==
  \/ Start
  \/ \E g \in Gens, code \in ExitCodes : OnExit(g, code)
  \/ Stop
  \/ Kill
  \/ Restart
  \/ \E r \in Calls : RestartWake(r)

KilledExits(g) == killed[g] /\ \E code \in ExitCodes : OnExit(g, code)
KillSpec == Init /\ [][KillNext]_vars /\ \A g \in Gens : WF_vars(KilledExits(g))

\* ------------------------------------------------ list responses, any names
\* what a behaviour of ListSpec holds at most: calls of start() and
\* getPlayers(), list lines printed, and the tokens of their name lists
MaxList == 7

NameTokens == {"Alex", "Steve", COMMA, SP}

RECURSIVE TextsUpTo(_)
\* the name lists of at most n tokens that a list line can carry
TextsUpTo(n) ==
  IF n <= 0 THEN {<<>>}
  ELSE LET p == TextsUpTo(n - 1) IN p \cup {Append(t, x) : t \in p, x \in NameTokens}

\* the tokens of the name lists delivered so far
TextTokens ==
  Sum([g \in Gens |-> Cardinality({i \in 1..Len(delivered[g]) :
                                     delivered[g][i] \in NameTokens})], MaxOps)

ListUsed == Used + TextTokens

\* the child answers "list": one whole line, handed over as one chunk
OnList(g) ==
  /\ child[g] = "running"
  /\ ListUsed < MaxList
  /\ \E txt \in TextsUpTo(MaxList - ListUsed - 1) :
       LET chunk == <<HDR, LISTHDR, SP>> \o txt \o <<NL>>
           r == onData(Cur, partial[g], chunk, g)
       IN /\ delivered' = [delivered EXCEPT ![g] = @ \o chunk]
          /\ partial' = [partial EXCEPT ![g] = r.partial]
          /\ Commit(r.server)
  /\ UNCHANGED <<child, killed, called>>
  /\ reported' = -1
  /\ UNCHANGED rconVars

ListNext ==
  \/ Start
  \/ \E g \in Gens : OnList(g)
  \/ GetPlayers
  \/ \E k \in Calls : Timeout(k)

ListSpec == Init /\ [][ListNext]_vars

\* ------------------------------------------- lines with several markers
\* lines that hold more than one of the markers checkEvents looks for, and
\* lines of the thread "Main" with the levels "minecraft" and "INFO", and a
\* line in the extended form a Forge server prints
MixedLines ==
  {<<HDR, "Steve", JOINED, SP, DONE, NL>>,
   <<HDR, "Steve", LEFT, SP, DONE, NL>>,
   <<HDR, "Steve", LEFT, SP, "Alex", JOINED, NL>>,
   <<HDRMAIN, DONE, SP, EULATXT, NL>>,
   <<HDRMAIN, "Steve", JOINED, SP, EULATXT, NL>>,
   <<HDRMAIN, EULATXT, NL>>,
   <<HDRMAININFO, EULATXT, NL>>,
   <<HDREXT, EULATXT, NL>>,
   JoinLine, LeaveLine, ReadyLine, ChatLine}

\* the child prints one of these lines, handed over as one chunk
OnLine(g) ==
  /\ child[g] = "running"
  /\ Used < MaxOps
  /\ \E chunk \in MixedLines :
       LET r == onData(Cur, partial[g], chunk, g)
       IN /\ delivered' = [delivered EXCEPT ![g] = @ \o chunk]
          /\ partial' = [partial EXCEPT ![g] = r.partial]
          /\ Commit(r.server)
  /\ UNCHANGED <<child, killed, called>>
  /\ reported' = -1
  /\ UNCHANGED rconVars

ClassifyNext ==
  \/ Start
  \/ \E g \in Gens : OnLine(g)

ClassifySpec == Init /\ [][ClassifyNext]_vars

\* -------------------------------------------------------------------- RCON
\* how many send() calls one behaviour of RconSpec holds at most
MaxSends == 2

\* bodies are byte strings: the passwords "p" and "x"; the k-th send() of a
\* session sends the k-th command of "a", "b", "c", ...
GoodPassword == <<112>>
Passwords == {<<112>>, <<120>>}
Command(k) == <<96 + k>>
\* what the listener answers to a command: its text in upper case
Reply(body) == [i \in 1..Len(body) |-> body[i] - 32]

\* Buffer.writeInt32LE / Buffer.readInt32LE (offsets count from 0); a
\* negative number is stored in two's complement, the complement of -(n+1)
le4(u) == <<u % 256, (u \div 256) % 256, (u \div 65536) % 256, (u \div 16777216) % 256>>
unle4(b) == b[1] + 256 * b[2] + 65536 * b[3] + 16777216 * b[4]
int32LE(n) ==
  IF n >= 0 THEN le4(n) ELSE [k \in 1..4 |-> 255 - le4(-(n + 1))[k]]
readInt32LE(buf, offset) ==
  LET b == SubSeq(buf, offset + 1, offset + 4)
  IN IF b[4] < 128 THEN unle4(b) ELSE -unle4([k \in 1..4 |-> 255 - b[k]]) - 1

\* a string is a sequence of characters (code points); UTF-8 stores one in
\* one, two or three bytes
utf8char(c) ==
  IF c < 128 THEN <<c>>
  ELSE IF c < 2048 THEN <<192 + (c \div 64), 128 + (c % 64)>>
  ELSE <<224 + (c \div 4096), 128 + ((c \div 64) % 64), 128 + (c % 64)>>

RECURSIVE utf8(_)
utf8(str) == IF str = <<>> THEN <<>> ELSE utf8char(Head(str)) \o utf8(Tail(str))

\* Buffer.byteLength(str)
byteLength(str) == Len(utf8(str))

\* U+FFFD, what the decoder puts for bytes that are no character
Replacement == 65533
IsTail(b) == 128 <= b /\ b < 192

RECURSIVE utf8decode(_)
utf8decode(b) ==
  IF b = <<>> THEN <<>>
  ELSE IF b[1] < 128 THEN <<b[1]>> \o utf8decode(Tail(b))
  ELSE IF 192 <= b[1] /\ b[1] < 224 /\ Len(b) >= 2 /\ IsTail(b[2])
       THEN <<(b[1] - 192) * 64 + (b[2] - 128)>> \o utf8decode(SubSeq(b, 3, Len(b)))
  ELSE IF 224 <= b[1] /\ b[1] < 240 /\ Len(b) >= 3 /\ IsTail(b[2]) /\ IsTail(b[3])
       THEN <<(b[1] - 224) * 4096 + (b[2] - 128) * 64 + (b[3] - 128)>>
              \o utf8decode(SubSeq(b, 4, Len(b)))
  ELSE <<Replacement>> \o utf8decode(Tail(b))

\* Buffer.toString("utf-8", start, end)
toString(buf, from, to) ==
  IF Min({to, Len(buf)}) <= from THEN <<>>
  ELSE utf8decode(SubSeq(buf, from + 1, Min({to, Len(buf)})))

\* Buffer.alloc(n): n zero bytes
alloc(n) == [k \in 1..n |-> 0]
\* Buffer.write / writeInt32LE / writeInt16LE: bytes stored from an offset on
writeAt(buf, bytes, offset) ==
  [k \in 1..Len(buf) |->
     IF offset < k /\ k <= offset + Len(bytes) THEN bytes[k - offset] ELSE buf[k]]
int16LE(n) == <<n % 256, (n \div 256) % 256>>

\* seeded fault: the length field counts the whole packet
createPacket_countsAll(id, type, body) ==
  LET length == byteLength(body) + 14
      b1 == writeAt(alloc(length), int32LE(length), 0)
      b2 == writeAt(b1, int32LE(id), 4)
      b3 == writeAt(b2, int32LE(type), 8)
      b4 == writeAt(b3, utf8(body), 12)
  IN writeAt(b4, int16LE(0), length - 2)

\* RCON.createPacket
createPacket(id, type, body) ==
  LET length == byteLength(body) + 14
      b1 == writeAt(alloc(length), int32LE(length - 4), 0)
      b2 == writeAt(b1, int32LE(id), 4)
      b3 == writeAt(b2, int32LE(type), 8)
      b4 == writeAt(b3, utf8(body), 12)
  IN writeAt(b4, int16LE(0), length - 2)

NoValue == [id |-> 0, body |-> <<>>, error |-> ""]
Failure(msg) == [id |-> 0, body |-> <<>>, error |-> msg]

\* seeded fault: the body is read up to the end of the packet
handleResponse_keepsNulls(buf, data) ==
  LET b == buf \o data
  IN IF Len(b) >= 12
     THEN LET length == readInt32LE(b, 0)
          IN IF Len(b) >= length + 4
             THEN [buffer |-> <<>>, outcome |-> "resolved",
                   value |-> [id |-> readInt32LE(b, 4),
                              body |-> toString(b, 12, length + 4), error |-> ""]]
             ELSE [buffer |-> b, outcome |-> "pending", value |-> NoValue]
     ELSE [buffer |-> b, outcome |-> "rejected",
           value |-> Failure("Incomplete packet received")]

\* RCON.handleResponse: the buffer it leaves and how its promise settles
handleResponse(buf, data) ==
  LET b == buf \o data
  IN IF Len(b) >= 12
     THEN LET length == readInt32LE(b, 0)
          IN IF Len(b) >= length + 4
             THEN [buffer |-> <<>>, outcome |-> "resolved",
                   value |-> [id |-> readInt32LE(b, 4),
                              body |-> toString(b, 12, length + 2), error |-> ""]]
             ELSE [buffer |-> b, outcome |-> "pending", value |-> NoValue]
     ELSE [buffer |-> b, outcome |-> "rejected",
           value |-> Failure("Incomplete packet received")]

\* the RCON object and the promises its methods handed out
CurRcon == [rcon |-> rcon, connectP |-> connectP, requests |-> requests]
CommitRcon(x) ==
  /\ rcon' = x.rcon
  /\ connectP' = x.connectP
  /\ requests' = x.requests

settleConnect(x, outcome, msg) ==
  IF x.connectP.promise = "pending"
  THEN [x EXCEPT !.connectP.promise = outcome, !.connectP.value = msg]
  ELSE x

\* seeded fault: connect() resolves whatever id the response carries
authThen_accepts(x, response) == settleConnect(x, "resolved", "")

\* RCON.connect: the .then callback of the authentication packet
authThen(x, response) ==
  IF response.id = -1 THEN settleConnect(x, "rejected", "Authentication failed")
  ELSE settleConnect(x, "resolved", "")

\* resolve / reject of the promise of sendPacket() call i; the promise of the
\* authentication packet is chained to connect()
settleRequest(x, i, outcome, value) ==
  IF x.requests[i].promise = "pending"
  THEN LET x1 == [x EXCEPT !.requests[i].promise = outcome, !.requests[i].value = value]
       IN IF x.requests[i].type # 3 THEN x1
          ELSE IF outcome = "resolved" THEN authThen(x1, value)
          ELSE settleConnect(x1, "rejected", value.error)
  ELSE x

\* RCON.sendPacket: write the packet, listen once for the next data event
sendPacket(x, id, type, body) ==
  [x EXCEPT !.rcon.written = Append(@, createPacket(id, type, body)),
            !.rcon.once = Append(@, Len(x.requests) + 1),
            !.requests = Append(@, [type |-> type, id |-> id, promise |-> "pending",
                                    value |-> NoValue,
                                    afterAuth |-> x.connectP.promise = "resolved"])]

RECURSIVE runOnce(_, _, _)
\* socket.emit("data", data) to the once-listeners, in the order they were added
runOnce(x, ls, data) ==
  IF ls = <<>> THEN x
  ELSE LET h == handleResponse(x.rcon.responseBuffer, data)
           x1 == [x EXCEPT !.rcon.responseBuffer = h.buffer]
           x2 == IF h.outcome = "pending" THEN x1
                 ELSE settleRequest(x1, Head(ls), h.outcome, h.value)
       IN runOnce(x2, Tail(ls), data)

RECURSIVE rejectAll(_, _)
\* socket.emit("error"): the listener of every sendPacket() call rejects
rejectAll(x, n) ==
  IF n = 0 THEN x
  ELSE settleRequest(rejectAll(x, n - 1), n, "rejected", Failure("socket error"))

SendsMade == Cardinality({i \in 1..Len(requests) : requests[i].type = 2})

\* RCON.connect up to socket.connect(port, host, callback)
Connect ==
  /\ connectP.promise = "none" /\ rcon.socket = "idle"
  /\ \E pw \in Passwords :
       connectP' = [promise |-> "pending", value |-> "", password |-> pw]
  /\ rcon' = [rcon EXCEPT !.socket = "connecting"]
  /\ UNCHANGED <<requests, remote, serverVars>>
  /\ UNCHANGED <<disconnectP, serverRcon, codec>>

\* the callback of socket.connect: the authentication packet is sent
Connected ==
  /\ rcon.socket = "connecting"
  /\ LET x == [CurRcon EXCEPT !.rcon.socket = "open", !.rcon.requestId = @ + 1]
     IN CommitRcon(sendPacket(x, rcon.requestId, 3, connectP.password))
  /\ UNCHANGED <<remote, serverVars>>
  /\ UNCHANGED <<disconnectP, serverRcon, codec>>

\* seeded fault: send() uses the counter without advancing it
Send_reusesId ==
  /\ SendsMade < MaxSends
  /\ CommitRcon(sendPacket(CurRcon, rcon.requestId, 2, Command(SendsMade + 1)))
  /\ UNCHANGED <<remote, serverVars>>
  /\ UNCHANGED <<disconnectP, serverRcon, codec>>

\* RCON.send
Send ==
  /\ SendsMade < MaxSends
  /\ LET x == [CurRcon EXCEPT !.rcon.requestId = @ + 1]
     IN CommitRcon(sendPacket(x, rcon.requestId, 2, Command(SendsMade + 1)))
  /\ UNCHANGED <<remote, serverVars>>
  /\ UNCHANGED <<disconnectP, serverRcon, codec>>

\* the listener answers packet i: an authentication packet with the id of the
\* request (type 2) or with -1, a command with its id and the reply (type 0)
Respond(i) ==
  /\ rcon.socket = "open"
  /\ i \in 1..Len(rcon.written) /\ i \notin remote.answered
  /\ LET p == rcon.written[i]
         id == readInt32LE(p, 4)
         body == SubSeq(p, 13, Len(p) - 2)
         answer == IF readInt32LE(p, 8) = 3
                   THEN createPacket(IF body = GoodPassword THEN id ELSE -1, 2, <<>>)
                   ELSE createPacket(id, 0, Reply(body))
     IN remote' = [inbound |-> remote.inbound \o answer,
                   answered |-> remote.answered \cup {i}]
  /\ UNCHANGED <<rcon, connectP, requests, serverVars>>
  /\ UNCHANGED <<disconnectP, serverRcon, codec>>

\* a read shorter than the 12 bytes of a packet header, and one that holds
\* the header but not the whole of the shortest packet
ShortRead == 7
HeaderRead == 12

\* the sizes of the next read: a piece of a packet (short, or the header and
\* no more), the next packet exactly, or everything that is on its way
ReadSizes(inb) ==
  LET next == IF Len(inb) >= 4 THEN readInt32LE(inb, 0) + 4 ELSE Len(inb)
  IN {n \in {ShortRead, HeaderRead, next, Len(inb)} : 1 <= n /\ n <= Len(inb)}

\* the socket's "data" event: the next bytes arrive in one read
Deliver ==
  /\ rcon.socket \in {"open", "ending"}
  /\ \E n \in ReadSizes(remote.inbound) :
       LET data == SubSeq(remote.inbound, 1, n)
           x == [CurRcon EXCEPT !.rcon.once = <<>>]
       IN /\ CommitRcon(runOnce(x, rcon.once, data))
          /\ remote' = [remote EXCEPT !.inbound = SubSeq(@, n + 1, Len(@))]
  /\ UNCHANGED serverVars
  /\ UNCHANGED <<disconnectP, serverRcon, codec>>

\* the socket's "error" event
SocketError ==
  /\ rcon.socket \in {"connecting", "open", "ending"}
  /\ LET x == [CurRcon EXCEPT !.rcon.socket = "errored"]
     IN CommitRcon(settleConnect(rejectAll(x, Len(requests)), "rejected", "socket error"))
  /\ disconnectP' = IF disconnectP.promise = "pending"
                    THEN [disconnectP EXCEPT !.promise = "rejected"] ELSE disconnectP
  /\ UNCHANGED <<remote, serverVars>>
  /\ UNCHANGED <<serverRcon, codec>>

\* RCON.disconnect: socket.end(callback); bytes on their way still arrive
Disconnect ==
  /\ rcon.socket = "open" /\ disconnectP.promise = "none"
  /\ rcon' = [rcon EXCEPT !.socket = "ending"]
  /\ disconnectP' = [promise |-> "pending",
                     pendingAt |-> {i \in 1..Len(requests) : requests[i].promise = "pending"}]
  /\ UNCHANGED <<connectP, requests, remote, serverVars, serverRcon, codec>>

\* the callback of socket.end: resolve(); the connection is closed
Ended ==
  /\ rcon.socket = "ending"
  /\ rcon' = [rcon EXCEPT !.socket = "closed"]
  /\ disconnectP' = [disconnectP EXCEPT !.promise = "resolved"]
  /\ UNCHANGED <<connectP, requests, remote, serverVars, serverRcon, codec>>

RconNext ==
  \/ Connect
  \/ Connected
  \/ Send
  \/ \E i \in 1..(MaxSends + 1) : Respond(i)
  \/ Deliver
  \/ SocketError

RconSpec == Init /\ [][RconNext]_vars

\* the same session with disconnect() called at any moment
DiscNext ==
  \/ RconNext
  \/ Disconnect
  \/ Ended

DiscSpec == Init /\ [][DiscNext]_vars

\* bytes that have arrived are handed to the "data" listeners; nothing makes
\* the listener answer, and the class sets no timer
RconFairSpec == Init /\ [][RconNext]_vars /\ WF_vars(Deliver)

\* ------------------------------------------------------ Server.connectRcon
\* what server.properties holds for enable-rcon and rcon.password; a key that
\* is missing and a key with no value both read as empty
Properties == [enabled : {"", "false", "true"}, password : {<<>>, GoodPassword}]

\* new RCON(): the constructor throws in its first statement
constructor == [threw |-> TRUE, error |-> "Not yet implemented"]

\* Server.connectRcon up to `await this.rcon.connect(...)`: the Server with
\* the promise of the call, and whether connect() was called
connectRcon(sr, props) ==
  LET call == [enabled |-> props.enabled, password |-> props.password,
               promise |-> "pending", error |-> ""]
      reject(msg) == [sr EXCEPT !.calls = Append(@, [call EXCEPT !.promise = "rejected",
                                                                !.error = msg])]
  IN IF props.enabled = "" \/ props.password = <<>>
     THEN [server |-> reject("RCON password not found in server.properties."),
           connect |-> FALSE]
     ELSE IF constructor.threw
     THEN [server |-> reject(constructor.error), connect |-> FALSE]
     ELSE [server |-> [sr EXCEPT !.rcon = "client", !.calls = Append(@, call)],
           connect |-> TRUE]

ConnectRcon ==
  /\ Used < MaxOps
  /\ \E props \in Properties :
       LET r == connectRcon(serverRcon, props)
       IN /\ serverRcon' = r.server
          /\ IF r.connect
             THEN /\ rcon' = [rcon EXCEPT !.socket = "connecting"]
                  /\ connectP' = [promise |-> "pending", value |-> "",
                                  password |-> props.password]
             ELSE UNCHANGED <<rcon, connectP>>
  /\ UNCHANGED <<serverVars, requests, remote, disconnectP, codec>>

\* the Server with its children started and ended and connectRcon() called
\* at any moment
RemoteNext ==
  \/ KillNext
  \/ ConnectRcon

RemoteSpec == Init /\ [][RemoteNext]_vars

\* --------------------------------------------- a Server that holds a client
\* `public rcon?: RCON`: the field is given the client, as the assignment in
\* connectRcon does when the constructor returns
AttachRcon ==
  /\ serverRcon.rcon = Undefined
  /\ Alive(ptyProcess)
  /\ serverRcon' = [serverRcon EXCEPT !.rcon = "client"]
  /\ UNCHANGED <<serverVars, rcon, connectP, requests, remote, disconnectP, codec>>

\* children started and ended, and a client in server.rcon that connects
\* and sends while the listener has not answered yet
SessionNext ==
  \/ Start
  \/ \E g \in Gens, code \in ExitCodes : OnExit(g, code)
  \/ AttachRcon
  \/ serverRcon.rcon = "client" /\ Connect
  \/ serverRcon.rcon = "client" /\ Connected
  \/ serverRcon.rcon = "client" /\ Send

SessionSpec == Init /\ [][SessionNext]_vars

\* ------------------------------------------------------- packets, any input
\* how many characters a body holds at most
MaxBody == 2

\* "a", e acute and the euro sign: one, two and three bytes in UTF-8
Chars == {97, 233, 8364}

RECURSIVE BodiesUpTo(_)
BodiesUpTo(n) ==
  IF n = 0 THEN {<<>>}
  ELSE LET p == BodiesUpTo(n - 1) IN p \cup {Append(s, c) : s \in p, c \in Chars}

\* request ids over the range of writeInt32LE, packet types
CodecIds == {0, 1, 255, 256, 65536, 2147483647, -1, -256, -2147483647 - 1}
CodecTypes == {0, 2, 3}

CodecInit ==
  /\ ServerInit
  /\ RconInit
  /\ codec \in {[NoCodec EXCEPT !.id = id, !.type = type, !.body = body, !.pc = "input"] :
                  id \in CodecIds, type \in CodecTypes, body \in BodiesUpTo(MaxBody)}

\* the packet is built
Encode ==
  /\ codec.pc = "input"
  /\ codec' = [codec EXCEPT !.packet = createPacket(codec.id, codec.type, codec.body),
                            !.pc = "encoded"]
  /\ UNCHANGED <<serverVars, rcon, connectP, requests, remote, disconnectP, serverRcon>>

\* the packet arrives in one read at a client with an empty buffer
Decode ==
  /\ codec.pc = "encoded"
  /\ codec' = [codec EXCEPT !.decoded = handleResponse(<<>>, codec.packet),
                            !.pc = "decoded"]
  /\ UNCHANGED <<serverVars, rcon, connectP, requests, remote, disconnectP, serverRcon>>

CodecNext ==
  \/ Encode
  \/ Decode

CodecSpec == CodecInit /\ [][CodecNext]_vars

\* ------------------------------------------------ Server status accessors
isRunning == ptyProcess # 0
isReady == ready
getStatus ==
  IF isRunning THEN (IF isReady THEN "running" ELSE "starting") ELSE "offline"

\* ------------------------------------------------------------ observations
NewlineCount(st) == Cardinality({i \in 1..Len(st) : IsNewline(st[i])})
\* the step handed a record to checkEvents and to the data subscribers
Processed == Len(stdout') = Len(stdout) + 1
EventsOf(log, ev) == SelectSeq(log, LAMBDA e : e.ev = ev)
SettlementsOf(log, k) == SelectSeq(log, LAMBDA e : e.call = k)

\* a Server that has not seen anything yet
Blank == [ptyProcess |-> 0, stdin |-> [g \in Gens |-> <<>>], ready |-> FALSE,
          players |-> {}, stdout |-> <<>>, listeners |-> <<>>,
          calls |-> [k \in Calls |-> NoCall], emitted |-> <<>>]

RECURSIVE feed(_, _, _)
\* the output handler run over a list of chunks
feed(s, part, chunks) ==
  IF chunks = <<>> THEN s
  ELSE LET r == onData(s, part, Head(chunks), 1)
       IN feed(r.server, r.partial, Tail(chunks))

\* a stream cut into chunks of one token each
OneByOne(st) == [i \in 1..Len(st) |-> <<st[i]>>]

\* --------------------------------------------------------------------- C1
\* C1: for a fixed output stream, the chunking that was actually delivered
\* and the one-token-at-a-time chunking of the same stream give the same
\* ordered sequence of data records (stated for a Server whose output so far
\* comes from one child and ends with a line terminator).
C1_SameLinesForAnyChunking ==
  \A g \in Gens :
    (endsWithNewline(delivered[g]) /\ \A h \in Gens \ {g} : delivered[h] = <<>>)
      => stdout = feed(Blank, <<>>, OneByOne(delivered[g])).stdout

\* --------------------------------------------------------------------- C2
\* C2: every terminated line is emitted as its own record exactly once: when
\* no child has an unterminated tail outstanding, the number of records is
\* the number of line terminators delivered, and no record spans two lines.
C2_OneRecordPerLine ==
  (\A g \in Gens : delivered[g] = <<>> \/ endsWithNewline(delivered[g]))
    => /\ Len(stdout) = Sum([g \in Gens |-> NewlineCount(delivered[g])], MaxOps)
       /\ \A i \in 1..Len(stdout) : NewlineCount(stdout[i].message) = 0

\* --------------------------------------------------------------------- C3
\* C3: while a child is running (Starting or Ready), no step (start() in
\* particular) spawns another child or replaces the child handle.
C3_StartWhileRunningRefused ==
  [][(isRunning /\ child[ptyProcess] = "running")
       => /\ ptyProcess' = ptyProcess
          /\ \A g \in Gens : child[g] = "unborn" => child'[g] = "unborn"]_vars

\* --------------------------------------------------------------------- C4
\* C4: the child handle is present exactly while its child runs: once the
\* exit has been observed isRunning() is false and getStatus() reports
\* neither "starting" nor "running".
C4_HandleIffRunning ==
  /\ isRunning => child[ptyProcess] = "running"
  /\ getStatus \in {"starting", "running"} => child[ptyProcess] = "running"

\* --------------------------------------------------------------------- C5
\* C5: the Server reports Ready ("running") only for a child that has itself
\* printed a ready line.
C5_ReadyOnlyAfterOwnReadyLine ==
  getStatus = "running" => DONE \in Range(delivered[ptyProcess])

\* --------------------------------------------------------------------- C6
\* C6: a child emits no further ready event once the Server is Ready for it
\* (it is the Server's child, the only one running, and isReady() holds).
C6_ReadyEmittedOnce ==
  [][\A i \in 1..Len(emitted') :
       emitted'[i].ev = "ready"
         => ~(/\ ready
              /\ ptyProcess = emitted'[i].gen
              /\ \A h \in Gens \ {ptyProcess} : child[h] # "running")]_vars

\* --------------------------------------------------------------------- C7
Names == {"Steve", "Alex"}

RECURSIVE applyJoinLeave(_, _)
\* a player set after the join and leave events of a log, in order
applyJoinLeave(set, log) ==
  IF log = <<>> THEN set
  ELSE LET e == Head(log)
       IN applyJoinLeave(IF e.ev = "join" THEN set \cup {e.arg}
                         ELSE IF e.ev = "leave" THEN set \ {e.arg}
                         ELSE set, Tail(log))

\* C7: a step that processes the line "X joined the game" adds X to players
\* and emits join(X) and nothing else but the data event; a step that
\* processes "X left the game" removes X (a set without X stays as it is)
\* and emits leave(X).
C7_JoinAddsLeaveRemoves ==
  [][Processed =>
       LET msg == stdout'[Len(stdout')].message
       IN \A x \in Names :
            /\ msg = <<x, JOINED>> =>
                  /\ players' = players \cup {<<x>>}
                  /\ Len(emitted') = 2
                  /\ emitted'[1].ev = "join" /\ emitted'[1].arg = <<x>>
                  /\ emitted'[2].ev = "data"
            /\ msg = <<x, LEFT>> =>
                  /\ players' = players \ {<<x>>}
                  /\ Len(emitted') = 2
                  /\ emitted'[1].ev = "leave" /\ emitted'[1].arg = <<x>>
                  /\ emitted'[2].ev = "data"]_vars

\* a join line for Steve and then a leave line for Steve were processed, and
\* Steve is not online
C7_Witness ==
  /\ Len(stdout) >= 2
  /\ stdout[Len(stdout) - 1].message = <<"Steve", JOINED>>
  /\ stdout[Len(stdout)].message = <<"Steve", LEFT>>
  /\ Len(emitted) = 2 /\ emitted[1].ev = "leave" /\ emitted[1].arg = <<"Steve">>
  /\ <<"Steve">> \notin players

\* --------------------------------------------------------------------- C8
\* C8 as claimed: players changes by join and leave events only.
C8_OnlyJoinLeaveChangePlayers ==
  [][players' = applyJoinLeave(players, emitted')]_vars

RECURSIVE applyEvents(_, _)
\* a player set after the join and leave events and the getPlayers()
\* resolutions of a log, in order
applyEvents(set, log) ==
  IF log = <<>> THEN set
  ELSE LET e == Head(log)
       IN applyEvents(IF e.ev = "join" THEN set \cup {e.arg}
                      ELSE IF e.ev = "leave" THEN set \ {e.arg}
                      ELSE IF e.ev = "resolved" THEN Range(e.arg)
                      ELSE set, Tail(log))

\* C8 as amended: players changes only by a join event (name added), a leave
\* event (name removed) and a getPlayers() call resolved by a list line (set
\* replaced by the listed names); no other step changes it.
C8_PlayersFollowEventsAndListing ==
  [][players' = applyEvents(players, emitted')]_vars

\* a getPlayers() call was resolved with Alex while the join/leave events
\* had only Steve online: players is now the listed set
C8_Witness ==
  /\ \E i \in 1..Len(emitted) : emitted[i].ev = "resolved" /\ emitted[i].arg = <<<<"Alex">>>>
  /\ \E i \in 1..Len(stdout) : stdout[i].message = <<"Steve", JOINED>>
  /\ \A i \in 1..Len(stdout) : stdout[i].message # <<"Steve", LEFT>>
  /\ players = {<<"Alex">>}

\* --------------------------------------------------------------------- C9
Settled(c) == c.promise \in {"resolved", "rejected"}

\* C9: the listener of a getPlayers() call is registered when the call writes
\* "list"; it is registered exactly while the promise is pending and at most
\* once; the first of match and timer settles the promise (match: resolved,
\* timer: rejected) and that step delivers one settlement; once settled, the
\* promise and its value never change, the listener is never registered
\* again, and no further settlement is delivered.
C9_SettledOnceDeregisteredOnce ==
  [][\A k \in Calls :
       /\ calls'[k].promise # "none" => calls'[k].listenedAtWrite
       /\ (calls'[k].promise = "pending")
            <=> (Len(SelectSeq(listeners', LAMBDA x : x = k)) = 1)
       /\ ~Settled(calls'[k]) => k \notin {emitted'[i].call : i \in 1..Len(emitted')}
       /\ (calls[k].promise = "pending" /\ Settled(calls'[k])) =>
            /\ Len(SettlementsOf(emitted', k)) = 1
            /\ SettlementsOf(emitted', k)[1].ev = calls'[k].promise
            /\ calls'[k].promise = (IF Processed THEN "resolved" ELSE "rejected")
            /\ (calls'[k].promise = "rejected") <=> (calls[k].timer = "armed" /\ calls'[k].timer = "fired")
       /\ Settled(calls[k]) =>
            /\ calls'[k].promise = calls[k].promise
            /\ calls'[k].value = calls[k].value
            /\ SettlementsOf(emitted', k) = <<>>
            /\ k \notin Range(listeners')]_vars

\* "list" was written to a child, the match came first and the timer fired
\* afterwards
C9_Witness ==
  \E k \in Calls :
    /\ calls[k].promise = "resolved" /\ calls[k].timer = "fired"
    /\ calls[k].listenedAtWrite
    /\ \E g \in Gens : <<"list", NL>> \in Range(stdin[g])

\* -------------------------------------------------------------------- C10
\* C10: a timer that fires while the promise is pending rejects it with
\* "Timeout"; a rejected promise stays rejected; and a list line processed
\* when every getPlayers() call made so far has timed out changes players
\* by nothing but the join/leave events of that record.
C10_TimeoutRejectsLateLineIgnored ==
  [][/\ \A k \in Calls :
          /\ (calls[k].promise = "pending" /\ calls[k].timer = "armed" /\ calls'[k].timer = "fired")
               => (calls'[k].promise = "rejected" /\ calls'[k].value = "Timeout"
                   /\ k \notin Range(listeners'))
          /\ calls[k].promise = "rejected"
               => (calls'[k] = calls[k] /\ SettlementsOf(emitted', k) = <<>>)
     /\ (/\ Processed
         /\ ListIdx(stdout'[Len(stdout')].message) # {}
         /\ \A k \in Calls : calls[k].promise \in {"none", "rejected"})
          => /\ players' = applyJoinLeave(players, emitted')
             /\ calls' = calls]_vars

\* a list line was processed after the only getPlayers() call, which wrote
\* "list" to the child, had timed out
C10_Witness ==
  /\ calls[1].promise = "rejected"
  /\ \A k \in Calls \ {1} : calls[k].promise = "none"
  /\ \E g \in Gens : <<"list", NL>> \in Range(stdin[g])
  /\ stdout # <<>> /\ ListIdx(stdout[Len(stdout)].message) # {}
  /\ emitted # <<>> /\ emitted[Len(emitted)].ev = "data"
  /\ players = {}

\* -------------------------------------------------------------------- C11
RECURSIVE scanNames(_, _, _)
\* the names of a comma-separated list read token by token: a comma ends the
\* entry in hand, which counts when something but white space is in it
scanNames(txt, cur, acc) ==
  LET done == IF trim(cur) = <<>> THEN acc ELSE Append(acc, trim(cur))
  IN IF txt = <<>> THEN done
     ELSE IF Head(txt) = COMMA THEN scanNames(Tail(txt), <<>>, done)
     ELSE scanNames(Tail(txt), Append(cur, Head(txt)), acc)

\* C11: a step that processes a list line while getPlayers() calls are
\* pending resolves each of them with the names of the line (comma-separated
\* entries, trimmed, empty entries dropped, in order) and leaves players
\* equal to exactly that set of names.
C11_ListLineResolvesAndReplaces ==
  [][(Processed /\ ListIdx(stdout'[Len(stdout')].message) # {}) =>
       LET msg == stdout'[Len(stdout')].message
           p == Min(ListIdx(msg))
           names == scanNames(SubSeq(msg, p + 1, Len(msg)), <<>>, <<>>)
       IN \A k \in Calls :
            calls[k].promise = "pending" =>
              /\ calls'[k].promise = "resolved"
              /\ calls'[k].value = names
              /\ players' = Range(names)]_vars

\* a pending call was resolved with Alex and Steve, in this order, by a list
\* line that also held an empty entry or padding
C11_Witness ==
  /\ \E k \in Calls :
       calls[k].promise = "resolved" /\ calls[k].value = <<<<"Alex">>, <<"Steve">>>>
  /\ stdout # <<>> /\ Len(stdout[Len(stdout)].message) >= 6
  /\ players = {<<"Alex">>, <<"Steve">>}

\* -------------------------------------------------------------------- C12
\* the step made a stop() call (its own or the one inside restart())
Stopping(k) == stops[k].promise = "none" /\ stops'[k].promise = "pending"

\* C12: a stop() call on a running server appends the line "stop" once to
\* the input of the Server's child and to no other; and the promise of a
\* stop() that was written to a child is resolved only when the exit of
\* that child has been observed.
C12_StopWritesOnceResolvesAfterExit ==
  [][\A k \in Calls :
       /\ (Stopping(k) /\ Alive(ptyProcess)) =>
            stdin' = [stdin EXCEPT ![ptyProcess] = Append(@, <<"stop", NL>>)]
       /\ (stops'[k].promise = "resolved" /\ stops'[k].gen # 0) =>
            child'[stops'[k].gen] = "exited"]_vars

\* -------------------------------------------------------------------- C13
\* the fields of the Server object and what the children received
programState == <<ptyProcess, child, partial, delivered, stdin, ready, players, stdout,
                  listeners, calls, stops, exitOnce, restarts>>

NoneAlive == \A g \in Gens : child[g] # "running"

\* C13: once a kill() has taken effect (the exit of the killed child, the
\* Server's child, was observed and no child is alive) the Server is in
\* Exited: it holds no handle and reports neither "starting" nor "running";
\* and a kill() call in Exited changes nothing.
C13_KillLeavesExited ==
  [][/\ \A g \in Gens :
          (killed'[g] /\ child'[g] = "exited" /\ ptyProcess' = g /\ NoneAlive')
            => (ptyProcess' = 0 /\ ready' = FALSE)
     /\ (called'.kill > called.kill /\ ptyProcess # 0 /\ NoneAlive)
          => UNCHANGED programState]_vars

\* -------------------------------------------------------------------- C14
StoppedOf(log, k) == SelectSeq(log, LAMBDA e : e.ev = "stopped" /\ e.arg = k)

\* the step that observes the exit of a child kill() was called on resolves
\* every stop() promise pending at that moment and delivers one resolution
\* for each; a resolved stop() promise never changes again and no further
\* resolution is delivered for it; a stop() promise changes from pending
\* only by an observed exit, and its listener is registered while it pends
ResolvedOnceByExit ==
  [][\A k \in Calls :
       /\ (\E g \in Gens : killed[g] /\ child[g] = "running" /\ child'[g] = "exited")
            => (stops[k].promise = "pending"
                  => stops'[k].promise = "resolved" /\ Len(StoppedOf(emitted', k)) = 1)
       /\ stops[k].promise = "resolved"
            => (stops'[k] = stops[k] /\ StoppedOf(emitted', k) = <<>>)
       /\ (stops[k].promise = "pending" /\ stops'[k].promise # "pending")
            => (\E g \in Gens : child[g] = "running" /\ child'[g] = "exited")
       /\ (stops'[k].promise = "pending") <=> (Len(SelectSeq(exitOnce', LAMBDA x : x = k)) = 1)]_vars

\* a stop() pending when kill() has been called on a running child is
\* resolved in the end
KillLeadsToResolved ==
  \A k \in Calls :
    (stops[k].promise = "pending" /\ \E g \in Gens : killed[g] /\ child[g] = "running")
      ~> (stops[k].promise = "resolved")

\* C14: when stop() is pending and kill() is called on the running child,
\* the exit of that child follows and resolves the pending stop() promise,
\* exactly once: the exit step resolves every pending stop() with one
\* resolution each, and a resolved stop() is never resolved again.
C14_KillUnblocksStopOnce == ResolvedOnceByExit /\ KillLeadsToResolved

\* stop() was written to the running child, which went on running; kill()
\* was then called on it, its exit was observed and the stop() is resolved
C14_Witness ==
  \E k \in Calls :
    /\ stops[k].promise = "resolved" /\ stops[k].gen # 0
    /\ killed[stops[k].gen] /\ child[stops[k].gen] = "exited"
    /\ Len(StoppedOf(emitted, k)) = 1
    /\ <<"stop", NL>> \in Range(stdin[stops[k].gen])

\* -------------------------------------------------------------------- C15
\* C15: the step of restart() that spawns the new child is taken only when
\* the child that received its "stop" has exited and no child of the Server
\* is alive, and it leaves the new child running as the Server's child
\* (Starting or Ready); so restart() never brings a second child to life.
C15_RestartSpawnsAfterExit ==
  [][\A r \in Calls :
       (restarts[r].pc = "waiting" /\ restarts'[r].pc = "done") =>
         /\ \A g \in Gens : child[g] # "running"
         /\ stops[restarts[r].stop].gen # 0
              => child[stops[restarts[r].stop].gen] = "exited"
         /\ ptyProcess' = restarts'[r].born
         /\ child'[restarts'[r].born] = "running"]_vars

\* -------------------------------------------------------------------- C16
\* C16: a write(text) call while the Server's child runs appends text to
\* that child's input, a writeLine(text) call appends text and a line
\* terminator; in Offline or Exited (no child was started, or none is alive)
\* the call forwards nothing to any handle and changes no state.
C16_WriteForwardsOnlyWhileRunning ==
  [][/\ called'.write > called.write =>
          /\ Alive(ptyProcess) =>
                \E text \in Texts :
                  stdin' = [stdin EXCEPT ![ptyProcess] = Append(@, text)]
          /\ NoneAlive => UNCHANGED programState
     /\ called'.writeLine > called.writeLine =>
          /\ Alive(ptyProcess) =>
                \E text \in Texts :
                  stdin' = [stdin EXCEPT ![ptyProcess] = Append(@, text \o <<NL>>)]
          /\ NoneAlive => UNCHANGED programState]_vars

\* -------------------------------------------------------------------- C17
PacketType(p) == readInt32LE(p, 8)
PacketBody(p) == SubSeq(p, 13, Len(p) - 2)

\* C17: a command packet (type 2) is written to the connected socket only
\* when connect() has resolved, that is after the response to the
\* authentication packet was received and accepted: a send() before that,
\* or after connect() failed, writes nothing.
C17_NoCommandBeforeAuth ==
  [][\A i \in 1..Len(rcon'.written) :
       (/\ i > Len(rcon.written) /\ PacketType(rcon'.written[i]) = 2
        /\ rcon.socket = "open")
         => connectP.promise = "resolved"]_vars

\* -------------------------------------------------------------------- C18
\* what the step read from the socket, <<>> when it read nothing
Read ==
  SubSeq(remote.inbound, 1, Len(remote.inbound) - Len(remote'.inbound))
\* the sendPacket() call of the authentication packet waits for the next read
AuthListening(i) ==
  /\ i \in Range(rcon.once)
  /\ requests[i].type = 3 /\ requests[i].promise = "pending"

\* C18: connect() is pending until the response handed to it settles it or
\* the socket errors. A read that is the whole response to the
\* authentication packet rejects connect() with "Authentication failed" when
\* it carries the id -1 and resolves it when it carries the request's id; a
\* socket error while connect() is pending rejects it; connect() resolves
\* only in a step that decodes a response with an id other than -1 for the
\* authentication packet; once settled it never changes.
C18_ConnectFollowsAuthResponse ==
  [][/\ \A i \in 1..Len(requests) :
          (AuthListening(i) /\ connectP.promise = "pending" /\ rcon.responseBuffer = <<>>) =>
             /\ Read = createPacket(-1, 2, <<>>) =>
                  (connectP'.promise = "rejected"
                     /\ connectP'.value = "Authentication failed")
             /\ Read = createPacket(requests[i].id, 2, <<>>) =>
                  connectP'.promise = "resolved"
     /\ (connectP.promise = "pending" /\ rcon.socket # "errored" /\ rcon'.socket = "errored")
          => connectP'.promise = "rejected"
     /\ (connectP.promise = "pending" /\ connectP'.promise = "resolved") =>
          \E i \in 1..Len(requests) :
            /\ AuthListening(i) /\ Read # <<>>
            /\ requests'[i].promise = "resolved" /\ requests'[i].value.id # -1
     /\ connectP.promise \in {"resolved", "rejected"} => connectP' = connectP]_vars

\* connect() was given the wrong password, the listener answered the
\* authentication packet with the id -1, and connect() failed with the
\* authentication error
C18_Witness ==
  /\ connectP.promise = "rejected" /\ connectP.value = "Authentication failed"
  /\ connectP.password # GoodPassword
  /\ \E i \in remote.answered : PacketType(rcon.written[i]) = 3
  /\ \E i \in 1..Len(requests) : requests[i].type = 3 /\ requests[i].value.id = -1

\* -------------------------------------------------------------------- C19
\* every send() of the session was made after connect() had resolved
AllAfterAuth == \A i \in 1..Len(requests) : requests[i].type = 2 => requests[i].afterAuth

\* C19: on a session whose send() calls were all made after authentication,
\* a send() call that has resolved holds the response that carries the
\* request id the call allocated, and the reply to its own command.
C19_ResponseMatchesRequestId ==
  \A i \in 1..Len(requests) :
    (AllAfterAuth /\ requests[i].type = 2 /\ requests[i].promise = "resolved") =>
      /\ requests[i].value.id = requests[i].id
      /\ requests[i].value.body = Reply(PacketBody(rcon.written[i]))

\* -------------------------------------------------------------------- C20
\* the response of the listener to the command of sendPacket() call i
ResponseTo(i) == createPacket(requests[i].id, 0, Reply(PacketBody(rcon.written[i])))
Waiting(i) ==
  /\ i \in Range(rcon.once)
  /\ requests[i].type = 2 /\ AllAfterAuth /\ requests[i].promise = "pending"

\* C20: when one read holds the responses to two send() calls waiting on
\* the authenticated session, one after the other, the bytes after the first packet are parsed as the
\* second packet: both calls resolve, each with its own response.
C20_CombinedReadResolvesBoth ==
  [][\A i, j \in 1..Len(requests) :
       (/\ i # j /\ Waiting(i) /\ Waiting(j)
        /\ rcon.responseBuffer = <<>>
        /\ Read = ResponseTo(i) \o ResponseTo(j)) =>
          /\ requests'[i].promise = "resolved"
          /\ requests'[i].value = [id |-> requests[i].id, error |-> "",
                                   body |-> Reply(PacketBody(rcon.written[i]))]
          /\ requests'[j].promise = "resolved"
          /\ requests'[j].value = [id |-> requests[j].id, error |-> "",
                                   body |-> Reply(PacketBody(rcon.written[j]))]]_vars

\* -------------------------------------------------------------------- C21
\* the i-th sendPacket() call is a send() made on the authenticated session
SendPending(i) ==
  IF i <= Len(requests)
  THEN requests[i].type = 2 /\ requests[i].afterAuth /\ requests[i].promise = "pending"
  ELSE FALSE
SendSettled(i) ==
  IF i <= Len(requests) THEN requests[i].promise \in {"resolved", "rejected"} ELSE FALSE

\* C21: every send() made on the authenticated session settles in the end
\* (with the response or, when none arrives in time, with a timeout error):
\* no send() promise stays pending forever.
C21_EverySendSettles ==
  \A i \in 1..(MaxSends + 1) : SendPending(i) ~> SendSettled(i)

\* -------------------------------------------------------------------- C22
\* C22: once disconnect() has closed the socket, every request that was
\* pending when it was called has failed (with the connection-closed error):
\* none of them is still pending and none was resolved.
C22_DisconnectFailsPending ==
  disconnectP.promise = "resolved" =>
    \A i \in disconnectP.pendingAt : requests[i].promise = "rejected"

\* -------------------------------------------------------------------- C23
\* the receive buffer does not hold the whole of the packet it begins with
Incomplete(b) == Len(b) < 4 \/ Len(b) < 4 + readInt32LE(b, 0)
Whole(b) == Len(b) >= 14 /\ Len(b) = 4 + readInt32LE(b, 0)

\* C23: a read that leaves the receive buffer with less than the whole of a
\* response (fewer than 12 bytes included) fails and resolves no request
\* that waits for it and keeps the bytes; and the read that completes a
\* response begun by earlier reads resolves the one pending request with the
\* id and the body of the reassembled packet.
C23_PartialResponseDefers ==
  [][\A i \in 1..Len(requests) :
       LET b == rcon.responseBuffer \o Read
       IN (requests[i].promise = "pending" /\ Read # <<>>) =>
            /\ (i \in Range(rcon.once) /\ Incomplete(b)) =>
                  (requests'[i].promise = "pending" /\ rcon'.responseBuffer = b)
            /\ (/\ \A j \in 1..Len(requests) \ {i} : requests[j].promise # "pending"
                /\ rcon.responseBuffer # <<>> /\ Whole(b)) =>
                  /\ requests'[i].promise = "resolved"
                  /\ requests'[i].value.id = readInt32LE(b, 4)
                  /\ requests'[i].value.body = utf8decode(SubSeq(b, 13, Len(b) - 2))]_vars

\* -------------------------------------------------------------------- C24
\* C24: the request ids of a session grow strictly from one sendPacket()
\* call to the next (the authentication packet and every send()), each
\* packet carries the id its call allocated, and the counter is beyond all
\* of them; so no two requests outstanding at the same time carry the same
\* id.
C24_RequestIdsStrictlyIncrease ==
  /\ \A i, j \in 1..Len(requests) : i < j => requests[i].id < requests[j].id
  /\ \A i \in 1..Len(requests) :
       /\ readInt32LE(rcon.written[i], 4) = requests[i].id
       /\ requests[i].id < rcon.requestId
  /\ \A i, j \in 1..Len(requests) :
       (i # j /\ requests[i].promise = "pending" /\ requests[j].promise = "pending")
         => readInt32LE(rcon.written[i], 4) # readInt32LE(rcon.written[j], 4)

\* the authentication packet and two send() calls, the two of them
\* outstanding at the same time with the ids 1 and 2
C24_Witness ==
  /\ Len(requests) = 3
  /\ requests[1].type = 3 /\ requests[1].id = 0
  /\ requests[2].promise = "pending" /\ readInt32LE(rcon.written[2], 4) = 1
  /\ requests[3].promise = "pending" /\ readInt32LE(rcon.written[3], 4) = 2

\* -------------------------------------------------------------------- C25
\* C25: decoding the bytes that encoding (id, type, body) produced yields
\* the same id and the same body, character for character (no trailing
\* null, nothing missing), and leaves nothing in the receive buffer.
C25_EncodeDecodeRoundTrip ==
  codec.pc = "decoded" =>
    /\ codec.decoded.outcome = "resolved"
    /\ codec.decoded.value.id = codec.id
    /\ codec.decoded.value.body = codec.body
    /\ codec.decoded.buffer = <<>>

\* the packet of id -1 with the body "euro sign, a" was encoded and decoded
C25_Witness ==
  /\ codec.pc = "decoded" /\ codec.id = -1 /\ codec.body = <<8364, 97>>
  /\ Len(codec.packet) = 18
  /\ codec.decoded.value = [id |-> -1, body |-> <<8364, 97>>, error |-> ""]

\* -------------------------------------------------------------------- C26
\* the four bytes of p from position k on are the little-endian 32-bit
\* two's complement form of v
Int32At(p, k, v) ==
  IF v >= 0
  THEN p[k + 3] < 128
         /\ p[k] + 256 * p[k + 1] + 65536 * p[k + 2] + 16777216 * p[k + 3] = v
  ELSE p[k + 3] >= 128
         /\ (255 - p[k]) + 256 * (255 - p[k + 1]) + 65536 * (255 - p[k + 2])
              + 16777216 * (255 - p[k + 3]) = -(v + 1)

\* C26: the packet encoded for (id, type, body), the body taking n bytes,
\* is n + 14 bytes long: the length n + 10 (the bytes that follow the
\* length field), the id and the type, each a little-endian int32, then the
\* n bytes of the body, then two null bytes.
C26_PacketLayout ==
  codec.pc \in {"encoded", "decoded"} =>
    LET p == codec.packet
        n == Len(utf8(codec.body))
    IN /\ Len(p) = n + 14
       /\ \A k \in 1..Len(p) : p[k] \in 0..255
       /\ Int32At(p, 1, n + 10)
       /\ Int32At(p, 5, codec.id)
       /\ Int32At(p, 9, codec.type)
       /\ SubSeq(p, 13, 12 + n) = utf8(codec.body)
       /\ p[n + 13] = 0 /\ p[n + 14] = 0

\* the authentication packet (type 3) with the id 256 and the body "e acute"
C26_Witness ==
  /\ codec.pc = "encoded" /\ codec.id = 256 /\ codec.type = 3 /\ codec.body = <<233>>
  /\ codec.packet = <<12, 0, 0, 0, 0, 1, 0, 0, 3, 0, 0, 0, 195, 169, 0, 0>>

\* -------------------------------------------------------------------- C27
\* C27: a connectRcon() call made with enable-rcon set and the password the
\* listener accepts in server.properties does not fail: it stores a client
\* in server.rcon and stays pending until that client is connected and
\* authenticated, which is when it resolves.
C27_ConnectRconYieldsClient ==
  \A k \in 1..Len(serverRcon.calls) :
    LET c == serverRcon.calls[k]
    IN (c.enabled = "true" /\ c.password = GoodPassword) =>
         /\ c.promise \in {"pending", "resolved"}
         /\ serverRcon.rcon = "client"
         /\ c.promise = "resolved" => connectP.promise = "resolved"

\* -------------------------------------------------------------------- C28
DomainEvents(log) == SelectSeq(log, LAMBDA e : e.ev \in {"join", "leave", "ready", "eula"})

\* C28: a step that processes a record delivers at most one domain event,
\* the first in the order join, leave, ready, eula whose pattern the message
\* matches (none when no pattern matches); a message with both
\* " joined the game" and the ready marker gives the join event only and
\* leaves isReady() as it was.
C28_FirstMatchInFixedOrder ==
  [][Processed =>
       LET rec == stdout'[Len(stdout')]
           msg == rec.message
           dom == DomainEvents(emitted')
           want == IF JOINED \in Range(msg) THEN "join"
                   ELSE IF LEFT \in Range(msg) THEN "leave"
                   ELSE IF DONE \in Range(msg) THEN "ready"
                   ELSE IF rec.type = "minecraft" /\ rec.thread = "Main"
                             /\ EULATXT \in Range(msg) THEN "eula"
                   ELSE "none"
       IN /\ Len(dom) <= 1
          /\ want = "none" => dom = <<>>
          /\ want # "none" => (Len(dom) = 1 /\ dom[1].ev = want)
          /\ (JOINED \in Range(msg) /\ DONE \in Range(msg)) => ready' = ready]_vars

\* the line "Steve joined the game Done (12.345s)! ..." was processed on a
\* Server that was not ready: join was delivered, and the Server is not ready
C28_Witness ==
  /\ stdout # <<>> /\ stdout[Len(stdout)].message = <<"Steve", JOINED, SP, DONE>>
  /\ Len(emitted) = 2 /\ emitted[1].ev = "join" /\ emitted[2].ev = "data"
  /\ ~ready /\ players = {<<"Steve">>}

\* -------------------------------------------------------------------- C29
RECURSIVE linesOf(_)
\* the terminated lines of a stream, each with its terminator
linesOf(st) ==
  LET nls == {i \in 1..Len(st) : IsNewline(st[i])}
  IN IF nls = {} THEN <<>>
     ELSE <<SubSeq(st, 1, Min(nls))>> \o linesOf(SubSeq(st, Min(nls) + 1, Len(st)))

\* what the subscribers of the Server's events were handed, promise
\* settlements left out
Events(log) == SelectSeq(log, LAMBDA e : e.call = 0)

\* a step that hands a record to the classifier delivers it to the data
\* subscribers once, after the domain event if there is one; a record that
\* matches no pattern gives the data event and no other
RecordDeliveredOnce ==
  Processed =>
    LET rec == stdout'[Len(stdout')]
        ev == Events(emitted')
    IN /\ Len(EventsOf(ev, "data")) = 1
       /\ ev[Len(ev)].ev = "data" /\ ev[Len(ev)].arg = rec
       /\ (/\ {JOINED, LEFT, DONE} \cap Range(rec.message) = {}
           /\ ~(rec.type = "minecraft" /\ rec.thread = "Main"
                  /\ EULATXT \in Range(rec.message)))
            => Len(ev) = 1

\* C29: every line of the stream is delivered to the data subscribers
\* exactly once, as its parsed record, whatever it classifies to (stated
\* for a Server whose output so far comes from one child and ends with a
\* line terminator); and a record that matches no domain pattern gives the
\* data event and no other.
C29_EveryLineDeliveredOnce ==
  [][/\ RecordDeliveredOnce
     /\ \A g \in Gens :
          (endsWithNewline(delivered'[g]) /\ \A h \in Gens \ {g} : delivered'[h] = <<>>)
            => stdout' = [i \in 1..Len(linesOf(delivered'[g])) |->
                            parseData(linesOf(delivered'[g])[i])]]_vars

\* -------------------------------------------------------------------- C30
\* the text m is found in the text seg, in one piece
Occurs(m, seg) ==
  \E p \in 1..(Len(seg) - Len(m) + 1) : SubSeq(seg, p, p + Len(m) - 1) = m

\* C30: a step handles the chunk of one child and delivers every event
\* derived from it, the data event last, before any later chunk is handled;
\* a chunk that completes no record delivers nothing; and the record of a
\* data event is text of the part of the child's stream that arrived after
\* the text of its previous records, so the data events follow the order of
\* the lines in the stream.
C30_EventsInArrivalOrder ==
  [][\A g \in Gens :
       delivered'[g] # delivered[g] =>
         LET ev == Events(emitted')
             fresh == SubSeq(delivered'[g], Len(delivered[g]) - Len(partial[g]) + 1,
                             Len(delivered'[g]))
         IN /\ \A h \in Gens \ {g} : delivered'[h] = delivered[h]
            /\ \A i \in 1..Len(ev) : ev[i].gen = g
            /\ IF Processed
               THEN /\ ev[Len(ev)].ev = "data"
                    /\ ev[Len(ev)].arg = stdout'[Len(stdout')]
                    /\ Occurs(stdout'[Len(stdout')].message, fresh)
                    /\ partial'[g] = <<>>
               ELSE ev = <<>> /\ stdout' = stdout]_vars

\* a join line and then a chat line of one child were delivered as two data
\* events, in this order
C30_Witness ==
  /\ Len(stdout) = 2
  /\ stdout[1].message = <<"Steve", JOINED>> /\ stdout[2].message = <<"hello">>
  /\ delivered[1] = JoinLine \o ChatLine
  /\ Len(emitted) = 1 /\ emitted[1].ev = "data" /\ emitted[1].arg = stdout[2]

\* -------------------------------------------------------------------- C31
\* C31: the step that observes the exit of a child delivers exactly one
\* exit event, carrying the exit code the process reported (zero or not),
\* delivers no error event and leaves isReady() false; no other step
\* delivers an exit event.
C31_ExitEmitsCodeClearsReady ==
  [][LET exits == EventsOf(emitted', "exit")
         observed == {g \in Gens : child[g] = "running" /\ child'[g] = "exited"}
     IN /\ observed = {} => exits = <<>>
        /\ \A g \in observed :
             /\ Len(exits) = 1
             /\ exits[1].arg = reported' /\ exits[1].gen = g
             /\ EventsOf(emitted', "error") = <<>>
             /\ ready' = FALSE]_vars

\* a child that had printed its ready line ended with the exit code 1: the
\* exit event carries 1 and the Server is not ready
C31_Witness ==
  /\ reported = 1
  /\ Len(emitted) >= 1 /\ emitted[1].ev = "exit" /\ emitted[1].arg = 1
  /\ emitted[1].gen # 0 /\ DONE \in Range(delivered[emitted[1].gen])
  /\ stdout # <<>> /\ ~ready

\* -------------------------------------------------------------------- C32
\* C32: the step that observes the exit of the Server's child while
\* server.rcon holds a client leaves server.rcon without one, and every
\* request pending on the client is failed by that step.
C32_ExitInvalidatesSession ==
  [][\A g \in Gens :
       (/\ child[g] = "running" /\ child'[g] = "exited" /\ ptyProcess = g
        /\ serverRcon.rcon = "client") =>
          /\ serverRcon'.rcon = Undefined
          /\ \A i \in 1..Len(requests) :
               requests[i].promise = "pending" => requests'[i].promise = "rejected"]_vars

\* -------------------------------------------------------------------- C33
\* C33: a step that processes a record of the thread "Main" whose message
\* references eula.txt and matches none of the join, leave and ready
\* patterns delivers the eula event exactly once, whatever the level of the
\* record.
C33_EulaWhateverLevel ==
  [][Processed =>
       LET rec == stdout'[Len(stdout')]
           msg == rec.message
       IN (/\ rec.thread = "Main" /\ EULATXT \in Range(msg)
           /\ JOINED \notin Range(msg) /\ LEFT \notin Range(msg)
           /\ DONE \notin Range(msg))
            => Len(EventsOf(emitted', "eula")) = 1]_vars

\* -------------------------------------------------------------------- C34
\* C34: the step that observes the end of a child whose unterminated
\* remainder is not empty processes the remainder as one more record and
\* delivers its data event.
C34_RemainderFlushedAtEnd ==
  [][\A g \in Gens :
       (child[g] = "running" /\ child'[g] = "exited" /\ partial[g] # <<>>) =>
          /\ Processed
          /\ Len(EventsOf(emitted', "data")) = 1]_vars

\* -------------------------------------------------------------------- C35
\* C35: the record a ForgeServer stores for a line its child printed is the
\* one ForgeServer.parseData gives for that line: for a line in the extended
\* form, thread and level are those of the first bracketed segment.
C35_ForgePipelineUsesForgeParser ==
  [][Processed =>
       \A g \in Gens :
         delivered'[g] # delivered[g] =>
           stdout'[Len(stdout')] =
             ForgeServer_parseData(SubSeq(delivered'[g], Len(delivered[g]) + 1,
                                          Len(delivered'[g])))]_vars

\* -------------------------------------------------------------------- C36
\* C36: the state a listener reads while it is notified reflects the event:
\* at a join event the player is in the players set, at a leave event the
\* player is not in it, at the ready event isReady() is true (getStatus()
\* is then "running", the child being set).
C36_StateReflectsEventAtNotify ==
  \A i \in 1..Len(emitted) :
    LET e == emitted[i]
    IN /\ e.ev = "join" => e.arg \in e.players
       /\ e.ev = "leave" => e.arg \notin e.players
       /\ e.ev = "ready" => e.ready

\* the join and leave parts alone
C36_PlayersReflectEventAtNotify ==
  \A i \in 1..Len(emitted) :
    LET e == emitted[i]
    IN /\ e.ev = "join" => e.arg \in e.players
       /\ e.ev = "leave" => e.arg \notin e.players

\* -------------------------------------------------------------------- C37
\* C37: a stop() called while no child of the Server runs is not left
\* waiting for an exit: the call leaves its promise settled, and a restart()
\* called in such a state is not left at its `await this.stop()`.
C37_StopWithoutChildSettles ==
  [][NoneAlive =>
       /\ \A k \in Calls : Stopping(k) => stops'[k].promise # "pending"
       /\ \A r \in Calls :
            (restarts[r].pc = "none" /\ restarts'[r].pc # "none")
              => restarts'[r].pc # "stopping"]_vars

\* the same in the long run: a stop() pending while no child runs is settled
\* in the end, a restart() that waits for it gets past it
C37_IdleStopLeadsToSettled ==
  /\ \A k \in Calls :
       (stops[k].promise = "pending" /\ NoneAlive) ~> (stops[k].promise # "pending")
  /\ \A r \in Calls :
       (restarts[r].pc = "stopping" /\ NoneAlive) ~> (restarts[r].pc # "stopping")

\* -------------------------------------------------------------------- C38
\* C38: while no child of the Server runs after an exit was observed, the
\* players set is empty.
C38_PlayersEmptyAfterExit ==
  (NoneAlive /\ \E g \in Gens : child[g] = "exited") => players = {}

\* -------------------------------------------------------------------- C39
IsSuffix(p, s) == Len(p) <= Len(s) /\ SubSeq(s, Len(s) - Len(p) + 1, Len(s)) = p

\* C39: a child starts with an empty remainder, the remainder kept for a
\* child is always the end of what that child printed, and the record
\* processed for a chunk of a child is parsed from the end of that child's
\* own output: text left over by one child never goes into the records of
\* another.
C39_RemainderStaysWithItsChild ==
  [][\A g \in Gens :
       /\ (child[g] = "unborn" /\ child'[g] = "running") => partial'[g] = <<>>
       /\ IsSuffix(partial'[g], delivered'[g])
       /\ (Processed /\ delivered'[g] # delivered[g]) =>
            \E n \in 1..Len(delivered'[g]) :
              Last(stdout') = parseData(SubSeq(delivered'[g], n, Len(delivered'[g])))]_vars

\* the first child printed text without a line ending and has ended; the
\* second child printed one whole line, whose record is that line alone
C39_Witness ==
  /\ child[1] = "exited" /\ partial[1] # <<>>
  /\ ptyProcess = 2 /\ child[2] = "running"
  /\ delivered[2] # <<>> /\ partial[2] = <<>>
  /\ stdout = <<parseData(delivered[2])>>
  /\ Len(emitted) >= 1 /\ Last(emitted).ev = "data" /\ Last(emitted).gen = 2

\* -------------------------------------------------------------------- C40
\* C40: a response line processed while several getPlayers() calls are
\* pending resolves every one of them with the names of that line and
\* removes their listeners; a call that settles, by the line or by its
\* timer, removes its own listener and leaves the listeners of the calls
\* still pending in place; and once every call made is settled and its
\* timer has fired, no listener is registered.
C40_ConcurrentCallsShareOneResponse ==
  [][/\ (Processed /\ ListIdx(Last(stdout').message) # {}) =>
          LET msg == Last(stdout').message
              names == listNames(ListCapture(msg, Min(ListIdx(msg))))
          IN \A k \in Calls :
               calls[k].promise = "pending" =>
                 /\ calls'[k].promise = "resolved" /\ calls'[k].value = names
                 /\ Len(SettlementsOf(emitted', k)) = 1
     /\ listeners' = SelectSeq(listeners \o (IF Len(listeners') > Len(listeners)
                                               THEN <<Last(listeners')>> ELSE <<>>),
                               LAMBDA x : calls'[x].promise = "pending")
     /\ (\A k \in Calls : calls'[k].promise # "none"
                             => (Settled(calls'[k]) /\ calls'[k].timer = "fired"))
          => listeners' = <<>>]_vars

\* two calls were pending when one response line was processed: that step
\* resolved both with the same names and left no listener
C40_Witness ==
  /\ calls[1].promise = "resolved" /\ calls[2].promise = "resolved"
  /\ calls[1].value = calls[2].value
  /\ Len(SettlementsOf(emitted, 1)) = 1 /\ Len(SettlementsOf(emitted, 2)) = 1
  /\ Len(EventsOf(emitted, "data")) = 1
  /\ listeners = <<>>
  /\ stdout # <<>> /\ ListIdx(Last(stdout).message) # {}

====
